---- MODULE Spec2Model ----
(***************************************************************************)
(* Model of tendant/simple-fsm: the transition engine (fsm.go) running     *)
(* over the in-memory storage (MemoryStorage), with several goroutines     *)
(* calling the engine concurrently.                                        *)
(*                                                                         *)
(* A State and an Event are modelled by their Name (the only field).  A    *)
(* declared transition is the triple From/To/Event (its CreatedAt and      *)
(* CreatedBy are never read).  An error is modelled by the sentinel it     *)
(* wraps (errors.Is), "nil" meaning no error.                              *)
(*                                                                         *)
(* sync.RWMutex is modelled by its holders: one writer or a set of         *)
(* readers.  A goroutine at pc "lock" is about to call, or is blocked in,  *)
(* Lock; a call that begins with a storage read starts when RLock is       *)
(* granted.                                                                *)
(*                                                                         *)
(* What a call returns is an operator (...Result) over the state in which  *)
(* the call takes its returning step.                                      *)
(***************************************************************************)
EXTENDS Integers, Sequences, FiniteSets, TLC

\* ---------------------------------------------------------------- bounds
\* Largest number of records the log may hold (calls that could append are
\* not started beyond it).
MaxLog == 3
\* Largest value of the wall clock.
MaxClock == 1
\* The longest list of transitions New is called with in SpecNew.
MaxDecl == 2
\* Largest number of records of the log in LiveSpec.
MaxLiveLog == 2
\* Largest number of records of the log in SpecDoc.
MaxDocLog == 4

\* ---------------------------------------------------------------- inputs
\* The calling goroutines.  Both call Start and Trigger; the read-only
\* operations are called by the goroutines of Queriers.
Procs == {"p1", "p2"}

Queriers == {"p2"}

\* The createdBy arguments.
Actors == {"alice"}

\* Two entities with the same ID and different Types.
Entities == {[Type |-> "document", ID |-> "1"], [Type |-> "order", ID |-> "1"]}

\* State names passed to Start ("archived" is never declared).
StartInputs == {"draft", "archived"}

\* State names passed to GetNextState.
StateInputs == {"draft", "submitted", "archived"}

\* Event names passed to Trigger, CanTrigger and GetNextState ("publish" is
\* never declared).
EventInputs == {"submit", "revise", "publish"}

\* ---------------------------------------------------------------- errors
NoErr == "nil"
ErrInvalidState == "invalid state"
ErrInvalidEvent == "invalid event"
ErrInvalidTransition == "invalid transition"
ErrEntityNotFound == "entity not found"
ErrNew == "new failed"

\* ------------------------------------------------- workflow definitions
T(from, event, to) == [From |-> from, To |-> to, Event |-> event]

\* A review workflow with a duplicate declaration: draft/submit is declared
\* twice with different targets.
ReviewStates == <<"draft", "submitted">>
ReviewEvents == <<"submit", "revise">>
ReviewTransitions ==
    << T("draft", "submit", "submitted"),
       T("draft", "submit", "draft"),
       T("submitted", "revise", "draft") >>

\* The document approval workflow.
DocumentStates == <<"draft", "submitted", "approved", "rejected", "published">>
DocumentEvents == <<"submit", "approve", "reject", "publish", "revise">>
DocumentTransitions ==
    << T("draft", "submit", "submitted"),
       T("submitted", "approve", "approved"),
       T("submitted", "reject", "rejected"),
       T("approved", "publish", "published"),
       T("rejected", "revise", "draft") >>

DocumentDefinition ==
    [states |-> DocumentStates, events |-> DocumentEvents,
     transitions |-> DocumentTransitions, storage |-> "memory"]

\* The arguments New is called with: valid and invalid definitions.
Definitions ==
    { [states |-> ReviewStates, events |-> ReviewEvents,
       transitions |-> ReviewTransitions, storage |-> "memory"],
      [states |-> <<>>, events |-> ReviewEvents,
       transitions |-> ReviewTransitions, storage |-> "memory"],
      [states |-> ReviewStates, events |-> <<>>,
       transitions |-> ReviewTransitions, storage |-> "memory"],
      [states |-> ReviewStates, events |-> ReviewEvents,
       transitions |-> <<>>, storage |-> "memory"],
      [states |-> ReviewStates, events |-> ReviewEvents,
       transitions |-> ReviewTransitions, storage |-> "nil"],
      [states |-> ReviewStates, events |-> ReviewEvents,
       transitions |-> << T("archived", "submit", "draft") >>, storage |-> "memory"],
      [states |-> ReviewStates, events |-> ReviewEvents,
       transitions |-> << T("draft", "submit", "archived") >>, storage |-> "memory"],
      [states |-> ReviewStates, events |-> ReviewEvents,
       transitions |-> << T("draft", "publish", "submitted") >>, storage |-> "memory"] }

\* The arguments New is called with when its validation is the subject: every
\* combination of a list of states, a list of events, a list of at most
\* MaxDecl transitions over declared and undeclared names, and a storage.
StateLists ==
    { <<>>, <<"draft">>, <<"draft", "submitted">>,
      <<"draft", "submitted", "archived">> }

EventLists == { <<>>, <<"submit">>, <<"submit", "revise">> }

Declarations ==
    {T(from, event, to) : from \in {"draft", "submitted", "archived"},
                          event \in {"submit", "publish"},
                          to \in {"draft", "submitted", "archived"}}

TransitionLists == UNION {[1..n -> Declarations] : n \in 0..MaxDecl}

NewInputs ==
    [states : StateLists, events : EventLists,
     transitions : TransitionLists, storage : {"memory", "nil"}]

\* ------------------------------------------------------------ the state
VARIABLES
    fsm,          \* the *FSM returned by New (NoFSM before)
    newErr,       \* the error of the last New call
    transitions,  \* MemoryStorage.transitions, the log
    mu,           \* MemoryStorage.mu
    clock,        \* the last value time.Now() returned
    pc,           \* where each goroutine is in its call
    call,         \* the call each goroutine is in, with its arguments
    currentState, \* Trigger's local currentState
    et            \* the EntityTransition a goroutine is about to save

vars == <<fsm, newErr, transitions, mu, clock, pc, call, currentState, et>>

NoFSM == [states |-> <<>>, events |-> <<>>, transitions |-> <<>>, storage |-> "nil"]
NoProc == "none"
NoEntity == [Type |-> "", ID |-> ""]
NoCall == [op |-> "none", entity |-> NoEntity, state |-> "", event |-> "",
           createdBy |-> ""]
NoET == [Entity |-> NoEntity,
         Transition |-> [From |-> "", To |-> "", Event |-> "",
                         CreatedAt |-> 0, CreatedBy |-> ""]]

\* ------------------------------------------------------- pure functions
\* Mutant: every state passes the validation.
validateStateAny(state, validStates) == NoErr

validateState(state, validStates) ==
    IF \E i \in DOMAIN validStates : validStates[i] = state
    THEN NoErr ELSE ErrInvalidState

\* Mutant: every event passes the validation.
validateEventAny(event, validEvents) == NoErr

validateEvent(event, validEvents) ==
    IF \E i \in DOMAIN validEvents : validEvents[i] = event
    THEN NoErr ELSE ErrInvalidEvent

\* Mutant: the last matching declaration wins.
findNextStateLast(f, from, event) ==
    LET hits == {i \in DOMAIN f.transitions :
                    /\ f.transitions[i].From = from
                    /\ f.transitions[i].Event = event}
    IN IF hits = {}
       THEN [state |-> "", err |-> ErrInvalidTransition]
       ELSE [state |-> f.transitions[CHOOSE i \in hits : \A j \in hits : j <= i].To,
             err |-> NoErr]

\* Mutant: the from-state is not compared.
findNextStateAnyFrom(f, from, event) ==
    LET hits == {i \in DOMAIN f.transitions : f.transitions[i].Event = event}
    IN IF hits = {}
       THEN [state |-> "", err |-> ErrInvalidTransition]
       ELSE [state |-> f.transitions[CHOOSE i \in hits : \A j \in hits : i <= j].To,
             err |-> NoErr]

\* The first declared transition, in declaration order, matching from and
\* event.
findNextState(f, from, event) ==
    LET hits == {i \in DOMAIN f.transitions :
                    /\ f.transitions[i].From = from
                    /\ f.transitions[i].Event = event}
    IN IF hits = {}
       THEN [state |-> "", err |-> ErrInvalidTransition]
       ELSE [state |-> f.transitions[CHOOSE i \in hits : \A j \in hits : i <= j].To,
             err |-> NoErr]

\* The validation loop of New over the declared transitions.
\* Mutant: the validation loop of New without the check of the to-state.
validTransitionsFromOnly(d) ==
    \A i \in DOMAIN d.transitions :
        /\ validateState(d.transitions[i].From, d.states) = NoErr
        /\ validateEvent(d.transitions[i].Event, d.events) = NoErr

validTransitions(d) ==
    \A i \in DOMAIN d.transitions :
        /\ validateState(d.transitions[i].From, d.states) = NoErr
        /\ validateState(d.transitions[i].To, d.states) = NoErr
        /\ validateEvent(d.transitions[i].Event, d.events) = NoErr

NewFails(d) ==
    \/ Len(d.states) = 0
    \/ Len(d.events) = 0
    \/ Len(d.transitions) = 0
    \/ d.storage = "nil"
    \/ ~validTransitions(d)

\* Mutant: entities are compared by ID alone.
SameEntityByID(a, b) == a.ID = b.ID

\* The entity comparison of the storage scans.
SameEntity(a, b) == a.Type = b.Type /\ a.ID = b.ID

\* Mutant: the record is appended twice.
SaveTransitionTwice(log, r) == Append(Append(log, r), r)

\* Mutant: the record takes the place of the last one (a lost append).
SaveTransitionOverwrites(log, r) ==
    IF log = <<>> THEN <<r>> ELSE [log EXCEPT ![Len(log)] = r]

\* Mutant: the record is put at the front of the log.
SaveTransitionFront(log, r) == <<r>> \o log

\* MemoryStorage.SaveTransition's effect on the log.
SaveTransition(log, r) == Append(log, r)

\* Mutant: the scan runs from the front and returns the entity's oldest
\* record.
GetCurrentStateOldest(log, entity) ==
    LET hits == {i \in DOMAIN log : SameEntity(log[i].Entity, entity)}
    IN IF hits = {}
       THEN [state |-> "", err |-> ErrEntityNotFound]
       ELSE [state |-> log[CHOOSE i \in hits : \A j \in hits : i <= j].Transition.To,
             err |-> NoErr]

\* Mutant: an entity without a record has the zero State and no error.
GetCurrentStateZero(log, entity) ==
    LET hits == {i \in DOMAIN log : log[i].Entity = entity}
    IN IF hits = {}
       THEN [state |-> "", err |-> NoErr]
       ELSE [state |-> log[CHOOSE i \in hits : \A j \in hits : j <= i].Transition.To,
             err |-> NoErr]

\* MemoryStorage.GetCurrentState: scan from the end for the entity.
GetCurrentState(log, entity) ==
    LET hits == {i \in DOMAIN log : SameEntity(log[i].Entity, entity)}
    IN IF hits = {}
       THEN [state |-> "", err |-> ErrEntityNotFound]
       ELSE [state |-> log[CHOOSE i \in hits : \A j \in hits : j <= i].Transition.To,
             err |-> NoErr]

\* Mutant: the entity's records, newest first.
RECURSIVE GetTransitionsNewestFirst(_, _)
GetTransitionsNewestFirst(log, entity) ==
    IF log = <<>> THEN <<>>
    ELSE LET rest == GetTransitionsNewestFirst(SubSeq(log, 1, Len(log) - 1), entity)
             last == log[Len(log)]
         IN IF SameEntity(last.Entity, entity) THEN <<last>> \o rest ELSE rest

\* MemoryStorage.GetTransitions: the entity's records in log order.
RECURSIVE GetTransitions(_, _)
GetTransitions(log, entity) ==
    IF log = <<>> THEN <<>>
    ELSE LET rest == GetTransitions(SubSeq(log, 1, Len(log) - 1), entity)
             last == log[Len(log)]
         IN IF SameEntity(last.Entity, entity) THEN Append(rest, last) ELSE rest

\* Mutant: the events of the declared transitions that lead to the state.
RECURSIVE availableEventsInto(_, _)
availableEventsInto(ts, from) ==
    IF ts = <<>> THEN <<>>
    ELSE LET rest == availableEventsInto(SubSeq(ts, 1, Len(ts) - 1), from)
             last == ts[Len(ts)]
         IN IF last.To = from THEN Append(rest, last.Event) ELSE rest

\* Mutant: each event is listed once.
RECURSIVE availableEventsOnce(_, _)
availableEventsOnce(ts, from) ==
    IF ts = <<>> THEN <<>>
    ELSE LET rest == availableEventsOnce(SubSeq(ts, 1, Len(ts) - 1), from)
             last == ts[Len(ts)]
         IN IF last.From = from /\ \A k \in DOMAIN rest : rest[k] # last.Event
            THEN Append(rest, last.Event) ELSE rest

\* The events of the declared transitions leaving state from, in declaration
\* order (the loop of GetAvailableEvents).
RECURSIVE availableEvents(_, _)
availableEvents(ts, from) ==
    IF ts = <<>> THEN <<>>
    ELSE LET rest == availableEvents(SubSeq(ts, 1, Len(ts) - 1), from)
             last == ts[Len(ts)]
         IN IF last.From = from THEN Append(rest, last.Event) ELSE rest

\* Mutant: the record of Start without the actor.
StartRecordAnonymous(entity, initialState, now, createdBy) ==
    [Entity |-> entity,
     Transition |-> [From |-> "", To |-> initialState, Event |-> "start",
                     CreatedAt |-> now, CreatedBy |-> ""]]

\* The record Start builds.
StartRecord(entity, initialState, now, createdBy) ==
    [Entity |-> entity,
     Transition |-> [From |-> "", To |-> initialState, Event |-> "start",
                     CreatedAt |-> now, CreatedBy |-> createdBy]]

\* The record Trigger builds.
TriggerRecord(entity, from, to, event, now, createdBy) ==
    [Entity |-> entity,
     Transition |-> [From |-> from, To |-> to, Event |-> event,
                     CreatedAt |-> now, CreatedBy |-> createdBy]]

\* The values time.Now() may return: never before the last one returned.
Now == {t \in {clock, clock + 1} : t <= MaxClock}

\* The calls in progress that may still append a record.
Appenders == {q \in Procs : call[q].op \in {"Start", "Trigger"}}

MayAppend == Len(transitions) + Cardinality(Appenders) < MaxLog

\* ------------------------------------------------- what the calls return
\* Mutant: Start refuses an entity that has a record already.
StartResultOnce(p) ==
    IF GetCurrentState(transitions, call[p].entity).err = NoErr
    THEN ErrInvalidState
    ELSE validateState(call[p].state, fsm.states)

\* Start, at pc "start": the error of its validation (nil: it goes on to
\* SaveTransition).
StartResult(p) == validateState(call[p].state, fsm.states)

\* storage.GetCurrentState, at pc "rcs".
ReadResult(p) == GetCurrentState(transitions, call[p].entity)

\* Trigger, at pc "check": the error it returns, or nil and the next state.
CheckResult(p) ==
    IF validateEvent(call[p].event, fsm.events) # NoErr
    THEN [state |-> "", err |-> validateEvent(call[p].event, fsm.events)]
    ELSE findNextState(fsm, currentState[p], call[p].event)

\* GetState, at pc "rcs".
GetStateResult(p) == ReadResult(p)

\* Mutant: CanTrigger says yes for every entity that has a record.
CanTriggerForExisting(entity, event) ==
    GetCurrentState(transitions, entity).err = NoErr

\* What CanTrigger(entity, event) returns on the log as it is.
CanTriggerFor(entity, event) ==
    LET r == GetCurrentState(transitions, entity)
    IN IF r.err # NoErr THEN FALSE
       ELSE findNextState(fsm, r.state, event).err = NoErr

\* The error Trigger(entity, event) returns when it runs on the log as it is
\* with no other call in between (SaveTransition of the in-memory store
\* returns nil).
TriggerFor(entity, event) ==
    LET r == GetCurrentState(transitions, entity)
    IN IF r.err # NoErr THEN r.err
       ELSE IF validateEvent(event, fsm.events) # NoErr
            THEN validateEvent(event, fsm.events)
            ELSE findNextState(fsm, r.state, event).err

\* CanTrigger, at pc "rcs".
CanTriggerResult(p) == CanTriggerFor(call[p].entity, call[p].event)

\* GetAvailableEvents, at pc "rcs".
GetAvailableEventsResult(p) ==
    IF ReadResult(p).err # NoErr
    THEN [events |-> <<>>, err |-> ReadResult(p).err]
    ELSE [events |-> availableEvents(fsm.transitions, ReadResult(p).state),
          err |-> NoErr]

\* GetTransitions, at pc "rcs".
GetTransitionsResult(p) ==
    [records |-> GetTransitions(transitions, call[p].entity), err |-> NoErr]

\* Mutant: GetNextState looks up from the recorded state of an entity.
GetNextStateResultRecorded(p) ==
    findNextState(fsm,
                  GetCurrentState(transitions,
                                  CHOOSE e \in Entities : e.Type = "document").state,
                  call[p].event)

\* GetNextState, at pc "next".
GetNextStateResult(p) == findNextState(fsm, call[p].state, call[p].event)

\* ----------------------------------------------------------------- Init
Init ==
    /\ fsm = NoFSM
    /\ newErr = NoErr
    /\ transitions = <<>>
    /\ mu = [writer |-> NoProc, readers |-> {}]
    /\ clock = 0
    /\ pc = [p \in Procs |-> "idle"]
    /\ call = [p \in Procs |-> NoCall]
    /\ currentState = [p \in Procs |-> ""]
    /\ et = [p \in Procs |-> NoET]

\* -------------------------------------------------------------- actions
\* New(states, events, transitions, storage)
New(d) ==
    /\ fsm = NoFSM
    /\ IF NewFails(d)
       THEN /\ newErr' = ErrNew
            /\ fsm' = fsm
       ELSE /\ newErr' = NoErr
            /\ fsm' = d
    /\ UNCHANGED <<transitions, mu, clock, pc, call, currentState, et>>

Idle(p) == fsm # NoFSM /\ pc[p] = "idle"

\* Back to the caller: the locals of the call are gone.
Done(p) ==
    /\ pc' = [pc EXCEPT ![p] = "idle"]
    /\ call' = [call EXCEPT ![p] = NoCall]
    /\ currentState' = [currentState EXCEPT ![p] = ""]
    /\ et' = [et EXCEPT ![p] = NoET]

\* Start(ctx, entity, initialState, createdBy) is called.
StartCall(p, entity, initialState, createdBy) ==
    /\ Idle(p)
    /\ call' = [call EXCEPT ![p] = [op |-> "Start", entity |-> entity,
                                    state |-> initialState, event |-> "",
                                    createdBy |-> createdBy]]
    /\ pc' = [pc EXCEPT ![p] = "start"]
    /\ UNCHANGED <<fsm, newErr, transitions, mu, clock, currentState, et>>

\* Start is called while the log has room for its record.
Start(p, entity, initialState, createdBy) ==
    /\ MayAppend
    /\ StartCall(p, entity, initialState, createdBy)

\* Start up to the call of SaveTransition: validate, read the clock, build
\* the record.
StartCheck(p) ==
    /\ pc[p] = "start"
    /\ IF StartResult(p) # NoErr
       THEN /\ Done(p)
            /\ UNCHANGED clock
       ELSE \E now \in Now :
              /\ clock' = now
              /\ et' = [et EXCEPT ![p] =
                          StartRecord(call[p].entity, call[p].state, now,
                                      call[p].createdBy)]
              /\ pc' = [pc EXCEPT ![p] = "lock"]
              /\ UNCHANGED <<call, currentState>>
    /\ UNCHANGED <<fsm, newErr, transitions, mu>>

\* Mutant: the write lock is granted while readers are inside.
SaveLockShared(p) ==
    /\ pc[p] = "lock"
    /\ mu.writer = NoProc
    /\ mu' = [mu EXCEPT !.writer = p]
    /\ pc' = [pc EXCEPT ![p] = "cs"]
    /\ UNCHANGED <<fsm, newErr, transitions, clock, call, currentState, et>>

\* SaveTransition: m.mu.Lock()
SaveLock(p) ==
    /\ pc[p] = "lock"
    /\ mu.writer = NoProc
    /\ mu.readers = {}
    /\ mu' = [mu EXCEPT !.writer = p]
    /\ pc' = [pc EXCEPT ![p] = "cs"]
    /\ UNCHANGED <<fsm, newErr, transitions, clock, call, currentState, et>>

\* Mutant: SaveTransition returns without unlocking.
SaveAppendHolds(p) ==
    /\ pc[p] = "cs"
    /\ transitions' = SaveTransition(transitions, et[p])
    /\ mu' = mu
    /\ Done(p)
    /\ UNCHANGED <<fsm, newErr, clock>>

\* SaveTransition: append, unlock, and Start or Trigger returns nil.
SaveAppend(p) ==
    /\ pc[p] = "cs"
    /\ transitions' = SaveTransition(transitions, et[p])
    /\ mu' = [mu EXCEPT !.writer = NoProc]
    /\ Done(p)
    /\ UNCHANGED <<fsm, newErr, clock>>

\* A call that begins with a storage read: m.mu.RLock() is granted.
CallRead(p, op, entity, event, createdBy) ==
    /\ Idle(p)
    /\ mu.writer = NoProc
    /\ mu' = [mu EXCEPT !.readers = @ \cup {p}]
    /\ call' = [call EXCEPT ![p] = [op |-> op, entity |-> entity, state |-> "",
                                    event |-> event, createdBy |-> createdBy]]
    /\ pc' = [pc EXCEPT ![p] = "rcs"]
    /\ UNCHANGED <<fsm, newErr, transitions, clock, currentState, et>>

\* Mutant: the read lock is not released.
ReadDoneLocked(p, op) ==
    /\ pc[p] = "rcs"
    /\ call[p].op = op
    /\ mu' = mu

\* The storage read scans, unlocks and returns.
ReadDone(p, op) ==
    /\ pc[p] = "rcs"
    /\ call[p].op = op
    /\ mu' = [mu EXCEPT !.readers = @ \ {p}]

\* Trigger(ctx, entity, event, createdBy) is called.
Trigger(p, entity, event, createdBy) ==
    /\ MayAppend
    /\ CallRead(p, "Trigger", entity, event, createdBy)

\* Trigger: GetCurrentState returns; Trigger returns its error or keeps the
\* state it read.
TriggerRead(p) ==
    /\ ReadDone(p, "Trigger")
    /\ IF ReadResult(p).err # NoErr
       THEN Done(p)
       ELSE /\ currentState' = [currentState EXCEPT ![p] = ReadResult(p).state]
            /\ pc' = [pc EXCEPT ![p] = "check"]
            /\ UNCHANGED <<call, et>>
    /\ UNCHANGED <<fsm, newErr, transitions, clock>>

\* Trigger between its two storage calls: validate the event, look the
\* transition up, read the clock, build the record.
TriggerCheck(p) ==
    /\ pc[p] = "check"
    /\ IF CheckResult(p).err # NoErr
       THEN /\ Done(p)
            /\ UNCHANGED clock
       ELSE \E now \in Now :
              /\ clock' = now
              /\ et' = [et EXCEPT ![p] =
                          TriggerRecord(call[p].entity, currentState[p],
                                        CheckResult(p).state, call[p].event, now,
                                        call[p].createdBy)]
              /\ pc' = [pc EXCEPT ![p] = "lock"]
              /\ UNCHANGED <<call, currentState>>
    /\ UNCHANGED <<fsm, newErr, transitions, mu>>

GetState(p, entity) == CallRead(p, "GetState", entity, "", "")

GetStateReturn(p) ==
    /\ ReadDone(p, "GetState")
    /\ Done(p)
    /\ UNCHANGED <<fsm, newErr, transitions, clock>>

CanTrigger(p, entity, event) == CallRead(p, "CanTrigger", entity, event, "")

CanTriggerReturn(p) ==
    /\ ReadDone(p, "CanTrigger")
    /\ Done(p)
    /\ UNCHANGED <<fsm, newErr, transitions, clock>>

GetAvailableEvents(p, entity) == CallRead(p, "GetAvailableEvents", entity, "", "")

GetAvailableEventsReturn(p) ==
    /\ ReadDone(p, "GetAvailableEvents")
    /\ Done(p)
    /\ UNCHANGED <<fsm, newErr, transitions, clock>>

GetTransitionsCall(p, entity) == CallRead(p, "GetTransitions", entity, "", "")

\* Mutant: GetTransitions hands the log over and leaves it empty.
GetTransitionsReturnDrains(p) ==
    /\ ReadDone(p, "GetTransitions")
    /\ Done(p)
    /\ transitions' = <<>>
    /\ UNCHANGED <<fsm, newErr, clock>>

GetTransitionsReturn(p) ==
    /\ ReadDone(p, "GetTransitions")
    /\ Done(p)
    /\ UNCHANGED <<fsm, newErr, transitions, clock>>

\* GetNextState(currentState, event) is called: no storage call.
GetNextState(p, state, event) ==
    /\ Idle(p)
    /\ call' = [call EXCEPT ![p] = [op |-> "GetNextState", entity |-> NoEntity,
                                    state |-> state, event |-> event,
                                    createdBy |-> ""]]
    /\ pc' = [pc EXCEPT ![p] = "next"]
    /\ UNCHANGED <<fsm, newErr, transitions, mu, clock, currentState, et>>

GetNextStateReturn(p) ==
    /\ pc[p] = "next"
    /\ Done(p)
    /\ UNCHANGED <<fsm, newErr, transitions, mu, clock>>

Next ==
    \/ \E d \in Definitions : New(d)
    \/ \E p \in Procs, e \in Entities, s \in StartInputs, by \in Actors :
          Start(p, e, s, by)
    \/ \E p \in Procs : StartCheck(p)
    \/ \E p \in Procs, e \in Entities, ev \in EventInputs, by \in Actors :
          Trigger(p, e, ev, by)
    \/ \E p \in Procs : TriggerRead(p)
    \/ \E p \in Procs : TriggerCheck(p)
    \/ \E p \in Procs : SaveLock(p)
    \/ \E p \in Procs : SaveAppend(p)
    \/ \E p \in Queriers, e \in Entities : GetState(p, e)
    \/ \E p \in Queriers : GetStateReturn(p)
    \/ \E p \in Queriers, e \in Entities, ev \in EventInputs : CanTrigger(p, e, ev)
    \/ \E p \in Queriers : CanTriggerReturn(p)
    \/ \E p \in Queriers, e \in Entities : GetAvailableEvents(p, e)
    \/ \E p \in Queriers : GetAvailableEventsReturn(p)
    \/ \E p \in Queriers, e \in Entities : GetTransitionsCall(p, e)
    \/ \E p \in Queriers : GetTransitionsReturn(p)
    \/ \E p \in Queriers, s \in StateInputs, ev \in EventInputs : GetNextState(p, s, ev)
    \/ \E p \in Queriers : GetNextStateReturn(p)

Spec == Init /\ [][Next]_vars

\* ----------------------------------------------- vocabulary of the claims
DeclaredStates == {fsm.states[i] : i \in DOMAIN fsm.states}

DeclaredEvents == {fsm.events[i] : i \in DOMAIN fsm.events}

\* The places in the log of the records of entity e.
Records(e) == {i \in DOMAIN transitions : transitions[i].Entity = e}

Exists(e) == Records(e) # {}

\* Declaration i is the first one declared for its from-state and event.
IsFirst(i) ==
    \A j \in DOMAIN fsm.transitions :
        (/\ fsm.transitions[j].From = fsm.transitions[i].From
         /\ fsm.transitions[j].Event = fsm.transitions[i].Event) => i <= j

\* Some declaration leaves state s on event e.
Declared(s, e) ==
    \E i \in DOMAIN fsm.transitions :
        fsm.transitions[i].From = s /\ fsm.transitions[i].Event = e

IsGenesis(r) == r.Transition.From = "" /\ r.Transition.Event = "start"

IsPrefix(s, t) == Len(s) <= Len(t) /\ \A i \in DOMAIN s : s[i] = t[i]

\* Goroutine p takes the step that ends its stay at pc = at.
Leaves(p, at) == pc[p] = at /\ pc'[p] # at

\* Goroutine p returns to its caller having appended nothing.
ReturnsUnsaved(p) == pc'[p] = "idle" /\ transitions' = transitions

\* The goroutine's pending Trigger matches declaration i.
Matches(p, i) ==
    /\ fsm.transitions[i].From = currentState[p]
    /\ fsm.transitions[i].Event = call[p].event

\* A Trigger of p that has read the from-state of a declaration i for its
\* event (of any such declaration, or only of the first declared for the
\* pair when firstOnly) goes on to save a record to the target of i, and
\* once the record is appended GetState returns that target.
TriggerReaches(p, firstOnly) ==
    /\ \A i \in DOMAIN fsm.transitions :
          (pc[p] = "check" /\ Matches(p, i) /\ (firstOnly => IsFirst(i))) =>
              /\ CheckResult(p) = [state |-> fsm.transitions[i].To, err |-> NoErr]
              /\ Leaves(p, "check") =>
                    /\ pc'[p] = "lock"
                    /\ et'[p].Transition.From = currentState[p]
                    /\ et'[p].Transition.To = fsm.transitions[i].To
    /\ (call[p].op = "Trigger" /\ Leaves(p, "cs")) =>
          /\ pc'[p] = "idle"
          /\ transitions' = Append(transitions, et[p])
          /\ GetCurrentState(transitions', call[p].entity)
                = [state |-> et[p].Transition.To, err |-> NoErr]

\* C1 as stated: for every declared transition (from, event, to), a Trigger
\* of event on an entity whose current state is from succeeds and GetState
\* then returns to.
C1_EveryDeclared == [][\A p \in Procs : TriggerReaches(p, FALSE)]_vars

\* C1, amended: for every declared transition (from, event, to) that is the
\* first one declared for (from, event), a Trigger of event on an entity
\* whose current state is from succeeds and GetState immediately afterwards
\* returns to.
C1_FirstDeclared == [][\A p \in Procs : TriggerReaches(p, TRUE)]_vars

\* C1: a Trigger record has been appended and is its entity's latest.
C1_Witness ==
    \E e \in Entities :
        /\ Exists(e)
        /\ \E i \in Records(e) :
              /\ transitions[i].Transition.Event = "submit"
              /\ transitions[i].Transition.To = "submitted"
              /\ \A j \in Records(e) : j <= i

\* A Trigger of p that has read state s, for an event in evs with no
\* declared transition from s, fails with the invalid-transition error,
\* appends nothing and leaves the entity's current state as it is.
TriggerRejects(p, evs) ==
    (/\ pc[p] = "check"
     /\ call[p].event \in evs
     /\ ~Declared(currentState[p], call[p].event)) =>
        /\ CheckResult(p).err = ErrInvalidTransition
        /\ Leaves(p, "check") =>
              /\ ReturnsUnsaved(p)
              /\ GetCurrentState(transitions', call[p].entity)
                    = GetCurrentState(transitions, call[p].entity)

\* C2 as stated: for every event with no declared transition from the
\* entity's current state, Trigger fails with the invalid-transition error
\* and appends nothing.
C2_AnyEvent == [][\A p \in Procs : TriggerRejects(p, EventInputs)]_vars

\* C2, amended: for every declared event e and existing entity whose current
\* state s has no declared transition on e, Trigger fails with the
\* invalid-transition error, appends no record and the entity's current
\* state is unchanged (an undeclared event fails with invalid-event).
C2_DeclaredEvent == [][\A p \in Procs : TriggerRejects(p, DeclaredEvents)]_vars

\* C2: a Trigger has read submitted and is about to reject submit.
C2_Witness ==
    \E p \in Procs :
        /\ pc[p] = "check"
        /\ currentState[p] = "submitted"
        /\ call[p].event = "submit"

\* C3 as stated: the from-state of every record in the log equals the
\* current state its entity had when the record was appended (the to-state
\* of the entity's previous record, or the empty sentinel when there was
\* none).
C3_FromIsCurrent ==
    \A i \in DOMAIN transitions :
        LET before == {j \in Records(transitions[i].Entity) : j < i}
        IN transitions[i].Transition.From =
              IF before = {} THEN ""
              ELSE transitions[CHOOSE j \in before :
                                  \A k \in before : k <= j].Transition.To

\* C4: a Trigger holds the store's lock only inside each storage call: from
\* the return of GetCurrentState to the Lock of SaveTransition it holds
\* neither side of it, the lock is held exactly by the goroutines inside a
\* storage call, and the record it saves keeps the state it read.
C4_WindowUnlocked ==
    /\ mu.readers = {p \in Procs : pc[p] = "rcs"}
    /\ \A p \in Procs : (mu.writer = p) <=> (pc[p] = "cs")
    /\ \A p \in Procs :
          (call[p].op = "Trigger" /\ pc[p] \in {"lock", "cs"}) =>
              et[p].Transition.From = currentState[p]

\* C4: two Triggers on one entity have both read the same state and both
\* appended: the entity has a Trigger record leaving state s right after a
\* Trigger record that left s for another state.
C4_Witness ==
    \E e \in Entities : \E i, j \in Records(e) :
        /\ i < j
        /\ \A k \in Records(e) : ~(i < k /\ k < j)
        /\ ~IsGenesis(transitions[i]) /\ ~IsGenesis(transitions[j])
        /\ transitions[i].Transition.From = transitions[j].Transition.From
        /\ transitions[i].Transition.To # transitions[j].Transition.From

\* C5: a Trigger on an entity without a record fails with entity-not-found
\* whatever its event, and appends nothing.
C5_TriggerNotFound ==
    [][\A p \in Procs :
          (pc[p] = "rcs" /\ call[p].op = "Trigger" /\ ~Exists(call[p].entity)) =>
              /\ ReadResult(p).err = ErrEntityNotFound
              /\ Leaves(p, "rcs") => ReturnsUnsaved(p)]_vars

\* C5: a Trigger with the declared event submit, which leaves the state every
\* entity starts in, is reading an entity that has no record while the other
\* entity has one.
C5_Witness ==
    /\ transitions # <<>>
    /\ \E p \in Procs :
          /\ pc[p] = "rcs" /\ call[p].op = "Trigger"
          /\ call[p].event = "submit"
          /\ ~Exists(call[p].entity)

\* C6: a Trigger on an existing entity with an undeclared event fails with
\* the invalid-event error and appends nothing.
C6_TriggerInvalidEvent ==
    [][\A p \in Procs :
          (pc[p] = "check" /\ call[p].event \notin DeclaredEvents) =>
              /\ CheckResult(p).err = ErrInvalidEvent
              /\ Leaves(p, "check") => ReturnsUnsaved(p)]_vars

\* C6: a Trigger with the undeclared event publish has read its entity.
C6_Witness ==
    \E p \in Procs :
        /\ pc[p] = "check"
        /\ call[p].event = "publish"
        /\ Exists(call[p].entity)

\* C7 as stated: GetTransitions returns every entity's records in
\* nondecreasing creation-timestamp order.
C7_TimestampOrder ==
    \A e \in Entities :
        LET rs == GetTransitions(transitions, e)
        IN \A i, j \in DOMAIN rs :
              i < j => rs[i].Transition.CreatedAt <= rs[j].Transition.CreatedAt

\* C8 as stated: for an entity with a record, GetTransitions holds exactly
\* one genesis record, and it is the first element.
C8_OneGenesis ==
    \A e \in Entities :
        LET rs == GetTransitions(transitions, e)
        IN rs # <<>> => {i \in DOMAIN rs : IsGenesis(rs[i])} = {1}

\* C9: the first record in the log of any entity is a genesis record (from
\* the empty sentinel, event start): no Trigger creates a first record.
C9_FirstIsGenesis ==
    \A e \in Entities :
        Exists(e) =>
            IsGenesis(transitions[CHOOSE i \in Records(e) :
                                      \A j \in Records(e) : i <= j])

\* C9: an entity has a Trigger record, and a Trigger is reading the other
\* entity, which has no record.
C9_Witness ==
    \E e \in Entities :
        /\ \E i \in Records(e) : ~IsGenesis(transitions[i])
        /\ \E p \in Procs :
              /\ pc[p] = "rcs" /\ call[p].op = "Trigger"
              /\ ~Exists(call[p].entity)

\* C10: the log is append-only: every step leaves the log it found as a
\* prefix of the log it leaves.
C10_AppendOnly == [][IsPrefix(transitions, transitions')]_vars

\* C10: the log has grown twice.
C10_Witness == Len(transitions) >= 2

\* The entity's current state: the to-state of its latest record in the log.
CurrentOf(e) ==
    transitions[CHOOSE i \in Records(e) : \A j \in Records(e) : j <= i].Transition.To

\* Goroutine p takes a step.
Acts(p) == pc'[p] # pc[p]

\* The entity the call of p is about (a call that is just starting has it in
\* the next state).
EntityOf(p) == IF call[p].op # "none" THEN call[p].entity ELSE call'[p].entity

\* What GetState and GetTransitions return for entity e in both states of a
\* step is the same.
SameAnswers(e) ==
    /\ GetCurrentState(transitions', e) = GetCurrentState(transitions, e)
    /\ GetTransitions(transitions', e) = GetTransitions(transitions, e)

\* C11: no step of a Start, a Trigger or a query on an entity changes what
\* GetState or GetTransitions return for another entity, also one with the
\* same ID and another Type.
C11_Isolation ==
    [][\A p \in Procs : \A b \in Entities :
          (Acts(p) /\ EntityOf(p) # b) => SameAnswers(b)]_vars

\* C11: both entities have records, one of them more than the other.
C11_Witness ==
    \E a, b \in Entities :
        /\ a # b /\ a.ID = b.ID
        /\ Cardinality(Records(a)) = 2
        /\ Cardinality(Records(b)) = 1

\* A Start or a Trigger on entity e completes in this step.
Completes(e) ==
    \E p \in Procs : Leaves(p, "cs") /\ call[p].entity = e

\* C12: GetState returns the same for an entity before and after every step
\* in which no Start or Trigger on that entity completes, so two GetState
\* calls with none between them return the same state or both
\* entity-not-found.
C12_ReadsRepeat ==
    [][\A e \in Entities :
          ~Completes(e) =>
              GetCurrentState(transitions', e) = GetCurrentState(transitions, e)]_vars

\* C12: a GetState is reading an entity on which a Trigger is under way, and
\* the other entity has just been started.
C12_Witness ==
    \E p, q \in Procs :
        /\ pc[p] = "rcs" /\ call[p].op = "GetState"
        /\ call[q].op = "Trigger" /\ pc[q] = "lock"
        /\ call[q].entity = call[p].entity
        /\ transitions # <<>>
        /\ transitions[Len(transitions)].Entity # call[p].entity

\* C13 as stated: GetCurrentState returns the to-state of the entity's
\* record with the latest creation timestamp (of one of them when several
\* share it), and fails with entity-not-found exactly when the entity has no
\* record.
C13_LatestTimestamp ==
    \A e \in Entities :
        LET r == GetCurrentState(transitions, e)
            latest == {i \in Records(e) : \A j \in Records(e) :
                          transitions[j].Transition.CreatedAt
                             <= transitions[i].Transition.CreatedAt}
        IN /\ (r.err = ErrEntityNotFound) <=> ~Exists(e)
           /\ Exists(e) =>
                 /\ r.err = NoErr
                 /\ \E i \in latest : r.state = transitions[i].Transition.To

\* C14: a Start with a declared state passes the validation and goes on to
\* SaveTransition; it appends one record, at its last step and at no other,
\* with the entity, from "", event "start", to the given state and the given
\* actor; GetState on the log it leaves returns that state; every declared
\* state passes the validation of Start.
C14_StartAppendsGenesis ==
    [][/\ fsm # NoFSM =>
             \A s \in DeclaredStates : validateState(s, fsm.states) = NoErr
       /\ \A p \in Procs :
             (call[p].op = "Start" /\ call[p].state \in DeclaredStates /\ Acts(p)) =>
                 /\ pc[p] = "start" => StartResult(p) = NoErr /\ pc'[p] = "lock"
                 /\ pc[p] # "cs" => transitions' = transitions
                 /\ pc[p] = "cs" =>
                       /\ pc'[p] = "idle"
                       /\ Len(transitions') = Len(transitions) + 1
                       /\ IsPrefix(transitions, transitions')
                       /\ LET r == transitions'[Len(transitions')]
                          IN /\ r.Entity = call[p].entity
                             /\ r.Transition.From = ""
                             /\ r.Transition.Event = "start"
                             /\ r.Transition.To = call[p].state
                             /\ r.Transition.CreatedBy = call[p].createdBy
                       /\ GetCurrentState(transitions', call[p].entity)
                             = [state |-> call[p].state, err |-> NoErr]]_vars

\* C14: an entity whose only record is the one of its Start: it was appended
\* last, by an actor, and the entity is in the state given to Start.
C14_Witness ==
    \E e \in Entities :
        /\ Cardinality(Records(e)) = 1
        /\ Len(transitions) \in Records(e)
        /\ IsGenesis(transitions[Len(transitions)])
        /\ transitions[Len(transitions)].Transition.CreatedBy \in Actors
        /\ CurrentOf(e) \in StartInputs

\* C15: a Start with an undeclared state returns invalid-state at its first
\* step: it never reaches SaveTransition, takes no lock and leaves the log as
\* it was.
C15_StartInvalidState ==
    [][\A p \in Procs :
          (pc[p] = "start" /\ call[p].state \notin DeclaredStates) =>
              /\ StartResult(p) = ErrInvalidState
              /\ Acts(p) => ReturnsUnsaved(p) /\ mu' = mu]_vars

\* C15: a Start with an undeclared state on an entity without a record is
\* about to return.
C15_Witness ==
    \E p \in Procs :
        /\ pc[p] = "start"
        /\ call[p].state \notin DeclaredStates
        /\ ~Exists(call[p].entity)

\* C16: a Start on an entity that already has records passes as on a new
\* one: it goes on to SaveTransition, which appends its genesis-shaped record
\* after the entity's earlier ones, and the state given to Start is the
\* current state afterwards.
C16_StartAgain ==
    [][\A p \in Procs :
          (call[p].op = "Start" /\ Exists(call[p].entity) /\ Acts(p)) =>
              /\ (pc[p] = "start" /\ call[p].state \in DeclaredStates) =>
                     StartResult(p) = NoErr /\ pc'[p] = "lock"
              /\ pc[p] = "cs" =>
                     /\ IsGenesis(et[p])
                     /\ GetTransitions(transitions', call[p].entity)
                           = Append(GetTransitions(transitions, call[p].entity), et[p])
                     /\ GetCurrentState(transitions', call[p].entity)
                           = [state |-> call[p].state, err |-> NoErr]
                     /\ pc'[p] = "idle"]_vars

\* C16: an entity that was started, moved on to submitted and was started
\* again, in draft.
C16_Witness ==
    \E e \in Entities :
        LET h == GetTransitions(transitions, e)
        IN /\ Len(h) = 3
           /\ IsGenesis(h[1]) /\ IsGenesis(h[3])
           /\ h[2].Transition.To = "submitted"
           /\ h[3].Transition.To = "draft"
           /\ CurrentOf(e) = "draft"

\* New alone, called with every definition of NewInputs.
NextNew == fsm = NoFSM /\ \E d \in NewInputs : New(d)

SpecNew == Init /\ [][NextNew]_vars

\* The names a list declares.
Names(list) == {list[i] : i \in DOMAIN list}

\* The definitions the specification says New refuses.
Refused(d) ==
    \/ d.states = <<>>
    \/ d.events = <<>>
    \/ d.transitions = <<>>
    \/ d.storage = "nil"
    \/ \E i \in DOMAIN d.transitions :
          \/ d.transitions[i].From \notin Names(d.states)
          \/ d.transitions[i].To \notin Names(d.states)
          \/ d.transitions[i].Event \notin Names(d.events)

\* C17: called with a definition that has no states, no events, no
\* transitions, no storage or a transition with an undeclared from-state,
\* to-state or event, New returns an error and no engine, and it cannot
\* return anything else; called with any other definition it returns the
\* engine of that definition and no error, and it cannot return anything
\* else.
C17_NewRefusesExactly ==
    fsm = NoFSM =>
        \A d \in NewInputs :
            IF Refused(d)
            THEN /\ ENABLED (New(d) /\ fsm' = NoFSM /\ newErr' = ErrNew)
                 /\ ~ENABLED (New(d) /\ fsm' # NoFSM)
            ELSE /\ ENABLED (New(d) /\ fsm' = d /\ newErr' = NoErr)
                 /\ ~ENABLED (New(d) /\ fsm' # d)

\* C17: New has returned an engine whose definition declares one (from,
\* event) pair twice with different targets, a state no transition uses or
\* reaches, and an event no transition uses.
C17_Witness ==
    /\ fsm # NoFSM
    /\ newErr = NoErr
    /\ \E i, j \in DOMAIN fsm.transitions :
          /\ i < j
          /\ fsm.transitions[i].From = fsm.transitions[j].From
          /\ fsm.transitions[i].Event = fsm.transitions[j].Event
          /\ fsm.transitions[i].To # fsm.transitions[j].To
    /\ \E s \in DeclaredStates : \A i \in DOMAIN fsm.transitions :
          fsm.transitions[i].From # s /\ fsm.transitions[i].To # s
    /\ \E e \in DeclaredEvents : \A i \in DOMAIN fsm.transitions :
          fsm.transitions[i].Event # e

\* What the lookup is to return for (s, e): the target of the earliest
\* declaration of the pair, invalid-transition when there is none.
FirstMatch(s, e) ==
    LET hits == {i \in DOMAIN fsm.transitions :
                    fsm.transitions[i].From = s /\ fsm.transitions[i].Event = e}
    IN IF hits = {}
       THEN [state |-> "", err |-> ErrInvalidTransition]
       ELSE [state |-> fsm.transitions[CHOOSE i \in hits : IsFirst(i)].To,
             err |-> NoErr]

\* C18: the lookup returns the target of the earliest declaration of the
\* (from, event) pair and invalid-transition when the pair is not declared;
\* GetNextState returns just that, Trigger with a declared event moves to
\* just that target or fails so, and CanTrigger on an existing entity says
\* whether there is one.
C18_FirstMatch ==
    \A p \in Procs :
        /\ pc[p] = "next" =>
              GetNextStateResult(p) = FirstMatch(call[p].state, call[p].event)
        /\ (pc[p] = "check" /\ call[p].event \in DeclaredEvents) =>
              CheckResult(p) = FirstMatch(currentState[p], call[p].event)
        /\ pc[p] \in {"lock", "cs"} /\ call[p].op = "Trigger" =>
              /\ FirstMatch(et[p].Transition.From, et[p].Transition.Event).err = NoErr
              /\ et[p].Transition.To
                    = FirstMatch(et[p].Transition.From, et[p].Transition.Event).state
        /\ (pc[p] = "rcs" /\ call[p].op = "CanTrigger" /\ Exists(call[p].entity)) =>
              CanTriggerResult(p)
                 = (FirstMatch(CurrentOf(call[p].entity), call[p].event).err = NoErr)

\* C18: GetNextState is asked for the pair declared twice while a Trigger of
\* that pair is about to save its record.
C18_Witness ==
    \E p, q \in Procs :
        /\ pc[p] = "next"
        /\ \E i, j \in DOMAIN fsm.transitions :
              /\ i # j
              /\ fsm.transitions[i].From = call[p].state
              /\ fsm.transitions[j].From = call[p].state
              /\ fsm.transitions[i].Event = call[p].event
              /\ fsm.transitions[j].Event = call[p].event
        /\ pc[q] = "lock" /\ call[q].op = "Trigger"
        /\ et[q].Transition.From = call[p].state
        /\ et[q].Transition.Event = call[p].event

\* C19: CanTrigger returns a boolean and no error: false for an entity
\* without a record, for an event that is not declared and for a pair no
\* transition declares; true when a declared transition leaves the entity's
\* current state with the event.
C19_CanTriggerBoolean ==
    \A p \in Procs :
        (pc[p] = "rcs" /\ call[p].op = "CanTrigger") =>
            /\ CanTriggerResult(p) \in BOOLEAN
            /\ ~Exists(call[p].entity) => CanTriggerResult(p) = FALSE
            /\ call[p].event \notin DeclaredEvents => CanTriggerResult(p) = FALSE
            /\ Exists(call[p].entity) =>
                  CanTriggerResult(p)
                     = Declared(CurrentOf(call[p].entity), call[p].event)

\* C19: CanTrigger is asked about an entity in submitted and an event that
\* is declared, but not from submitted.
C19_Witness ==
    \E p \in Procs :
        /\ pc[p] = "rcs" /\ call[p].op = "CanTrigger"
        /\ Exists(call[p].entity)
        /\ CurrentOf(call[p].entity) = "submitted"
        /\ call[p].event \in DeclaredEvents
        /\ ~Declared("submitted", call[p].event)

\* The positions of the declared transitions that leave state s.
Leaving(s) == {i \in DOMAIN fsm.transitions : fsm.transitions[i].From = s}

C21_StorageFree ==
    [][\A p \in Procs :
          /\ (Acts(p) /\ (pc[p] = "next" \/ pc'[p] = "next")) =>
                /\ transitions' = transitions
                /\ mu' = mu
                /\ p \notin mu.readers /\ mu.writer # p
          /\ pc[p] = "next" =>
                /\ GetNextStateResult(p) = FirstMatch(call[p].state, call[p].event)
                /\ pc'[p] = "next" => GetNextStateResult(p)' = GetNextStateResult(p)]_vars

\* C21: GetNextState is asked about a state no entity is in, and answers
\* with a target, while the log holds records.
C21_Witness ==
    \E p \in Procs :
        /\ pc[p] = "next"
        /\ transitions # <<>>
        /\ \A e \in Entities : Exists(e) => CurrentOf(e) # call[p].state
        /\ GetNextStateResult(p).err = NoErr

\* ------------------------------------------- one caller, one document
\* A single caller drives one document through the document approval
\* workflow, one call after the other.
Caller == "p1"

DocEntity == [Type |-> "document", ID |-> "1"]

DocMayAppend == Len(transitions) < MaxDocLog

DocStart(by) == DocMayAppend /\ StartCall(Caller, DocEntity, "draft", by)

DocTrigger(event, by) ==
    DocMayAppend /\ CallRead(Caller, "Trigger", DocEntity, event, by)

NextDoc ==
    \/ New(DocumentDefinition)
    \/ \E by \in Actors : DocStart(by)
    \/ StartCheck(Caller)
    \/ \E i \in DOMAIN DocumentEvents, by \in Actors : DocTrigger(DocumentEvents[i], by)
    \/ TriggerRead(Caller)
    \/ TriggerCheck(Caller)
    \/ SaveLock(Caller)
    \/ SaveAppend(Caller)
    \/ GetState(Caller, DocEntity)
    \/ GetStateReturn(Caller)
    \/ GetTransitionsCall(Caller, DocEntity)
    \/ GetTransitionsReturn(Caller)
    \/ GetAvailableEvents(Caller, DocEntity)
    \/ GetAvailableEventsReturn(Caller)

SpecDoc == Init /\ [][NextDoc]_vars

\* The scenario: the event and the to-state of its four calls.
ScenarioEvents == <<"start", "submit", "reject", "revise">>
ScenarioStates == <<"draft", "submitted", "rejected", "draft">>

\* log is what the first k calls of the scenario leave.
AfterScenario(log, k) ==
    /\ Len(log) = k
    /\ \A i \in 1..k :
          /\ log[i].Entity = DocEntity
          /\ log[i].Transition.Event = ScenarioEvents[i]
          /\ log[i].Transition.To = ScenarioStates[i]
          /\ log[i].Transition.From = IF i = 1 THEN "" ELSE ScenarioStates[i - 1]

\* The caller is in the k-th call of the scenario.
InScenarioCall(k) ==
    /\ call[Caller].entity = DocEntity
    /\ IF k = 1
       THEN call[Caller].op = "Start" /\ call[Caller].state = ScenarioStates[1]
       ELSE call[Caller].op = "Trigger" /\ call[Caller].event = ScenarioEvents[k]

\* C22: in the document workflow, each call of Start(draft), Trigger(submit),
\* Trigger(reject), Trigger(revise), made after the ones before it, returns
\* only after appending its record and leaves the entity in draft,
\* submitted, rejected, draft in turn; after the four, GetState returns
\* draft, GetTransitions the four records in that order, and
\* GetAvailableEvents submit alone.
C22_RejectionRevision ==
    [][/\ \A k \in 1..4 :
             (AfterScenario(transitions, k - 1) /\ InScenarioCall(k) /\ Acts(Caller)) =>
                 /\ pc'[Caller] = "idle" => pc[Caller] = "cs"
                 /\ pc[Caller] = "cs" =>
                       /\ AfterScenario(transitions', k)
                       /\ GetCurrentState(transitions', DocEntity)
                             = [state |-> ScenarioStates[k], err |-> NoErr]
       /\ (AfterScenario(transitions, 4) /\ pc[Caller] = "rcs") =>
             /\ call[Caller].op = "GetState" =>
                   GetStateResult(Caller) = [state |-> "draft", err |-> NoErr]
             /\ call[Caller].op = "GetTransitions" =>
                   /\ GetTransitionsResult(Caller).err = NoErr
                   /\ GetTransitionsResult(Caller).records = transitions
             /\ call[Caller].op = "GetAvailableEvents" =>
                   GetAvailableEventsResult(Caller)
                      = [events |-> <<"submit">>, err |-> NoErr]]_vars

\* C22: after the four calls of the scenario GetTransitions is about to
\* return.
C22_Witness ==
    /\ fsm = DocumentDefinition
    /\ AfterScenario(transitions, 4)
    /\ pc[Caller] = "rcs"
    /\ call[Caller].op = "GetTransitions"

\* The error a Start or Trigger returns when it returns from where it is:
\* nil after SaveTransition, the error of its check or of its read before.
ReturnedError(p) ==
    CASE pc[p] = "start" -> StartResult(p)
      [] pc[p] = "rcs" -> ReadResult(p).err
      [] pc[p] = "check" -> CheckResult(p).err
      [] OTHER -> NoErr

\* Goroutine p returns from a Start or a Trigger in this step.
Returns(p) ==
    /\ call[p].op \in {"Start", "Trigger"}
    /\ Acts(p)
    /\ pc'[p] = "idle"

\* C23: in every step the number of records GetTransitions returns for an
\* entity grows by the number of Start and Trigger calls on it that return
\* success in that step: by one for a successful call, by none for a failed
\* one or any other step, so it equals the number of successful calls.
C23_OneRecordPerSuccess ==
    [][\A e \in Entities :
          Len(GetTransitions(transitions', e))
             = Len(GetTransitions(transitions, e))
               + Cardinality({p \in Procs : /\ Returns(p)
                                            /\ ReturnedError(p) = NoErr
                                            /\ call[p].entity = e})]_vars

\* C23: an entity with a Start and two successful Triggers has three
\* records.
C23_Witness ==
    \E e \in Entities :
        LET h == GetTransitions(transitions, e)
        IN /\ Len(h) = 3
           /\ IsGenesis(h[1]) /\ ~IsGenesis(h[2]) /\ ~IsGenesis(h[3])

\* ------------------------------------------------------------- progress
\* The step goroutine p takes next in the call it is in.
Step(p) ==
    \/ StartCheck(p)
    \/ TriggerRead(p)
    \/ TriggerCheck(p)
    \/ SaveAppend(p)
    \/ GetStateReturn(p)
    \/ CanTriggerReturn(p)
    \/ GetAvailableEventsReturn(p)
    \/ GetTransitionsReturn(p)
    \/ GetNextStateReturn(p)

\* Every goroutine goes on with the call it is in, and sync.RWMutex lets a
\* goroutine blocked in Lock in before readers that arrive later, so that a
\* writer for which the lock is free again and again gets it.
Fairness ==
    \A p \in Procs : WF_vars(Step(p)) /\ SF_vars(SaveLock(p))

\* The engine's operations with a log of at most MaxLiveLog records.
LiveMayAppend == Len(transitions) + Cardinality(Appenders) < MaxLiveLog

NextLive ==
    \/ \E d \in Definitions : New(d)
    \/ \E p \in Procs, e \in Entities, s \in StartInputs, by \in Actors :
          LiveMayAppend /\ StartCall(p, e, s, by)
    \/ \E p \in Procs, e \in Entities, ev \in EventInputs, by \in Actors :
          LiveMayAppend /\ CallRead(p, "Trigger", e, ev, by)
    \/ \E p \in Procs : Step(p)
    \/ \E p \in Procs : SaveLock(p)
    \/ \E p \in Queriers, e \in Entities : GetState(p, e)
    \/ \E p \in Queriers, e \in Entities, ev \in EventInputs : CanTrigger(p, e, ev)
    \/ \E p \in Queriers, e \in Entities : GetAvailableEvents(p, e)
    \/ \E p \in Queriers, e \in Entities : GetTransitionsCall(p, e)
    \/ \E p \in Queriers, s \in StateInputs, ev \in EventInputs : GetNextState(p, s, ev)

LiveSpec == Init /\ [][NextLive]_vars /\ Fairness

\* Goroutine p is not stuck: it is idle, can take its next step, or waits
\* for a lock held by a goroutine that can take its next step.
NotStuck(p) ==
    \/ pc[p] = "idle"
    \/ ENABLED Step(p)
    \/ /\ pc[p] = "lock"
       /\ \/ ENABLED SaveLock(p)
          \/ \E q \in Procs \ {p} :
                /\ mu.writer = q \/ q \in mu.readers
                /\ ENABLED Step(q)

\* C24: no state is a deadlock and no goroutine is stuck in one; under fair
\* scheduling every call that has started returns, and a held write lock is
\* released, so that no read waits for ever.
C24_EveryCallReturns ==
    /\ [](ENABLED NextLive /\ \A p \in Procs : NotStuck(p))
    /\ \A p \in Procs : (pc[p] # "idle") ~> (pc[p] = "idle")
    /\ (mu.writer # NoProc) ~> (mu.writer = NoProc)

\* C24: a Start or a Trigger waits for the write lock while a reader is
\* scanning, and the other way round a writer is inside.
C24_Witness ==
    \E p, q \in Procs :
        /\ pc[p] = "lock"
        /\ pc[q] = "rcs" /\ q \in mu.readers
        /\ ~ENABLED SaveLock(p)

\* C25: at most one SaveTransition is inside its critical section, it is the
\* holder of the write lock, and no GetCurrentState or GetTransitions is
\* inside its own meanwhile; the goroutines scanning are the holders of the
\* read lock, and no step taken while one of them is scanning changes the
\* log.
C25_WriterExcludes ==
    [][/\ Cardinality({p \in Procs : pc[p] = "cs"}) <= 1
       /\ \A p \in Procs :
             /\ pc[p] = "cs" <=> mu.writer = p
             /\ pc[p] = "rcs" <=> p \in mu.readers
       /\ (\E p \in Procs : pc[p] = "cs") => \A q \in Procs : pc[q] # "rcs"
       /\ (\E p \in Procs : pc[p] = "rcs") => transitions' = transitions]_vars

\* C25: two goroutines scan the log at the same time while it holds
\* records.
C25_Witness ==
    /\ transitions # <<>>
    /\ \E p, q \in Procs : p # q /\ pc[p] = "rcs" /\ pc[q] = "rcs"

\* C26: a SaveTransition that returns has put its record at the end of the
\* log, once, with every record that was there before still in its place,
\* and the record of a SaveTransition that another goroutine has under way
\* is still to be saved; taking the lock changes neither the log nor a
\* record to be saved. So the log grows by one record for each call that
\* returns, concurrent or not.
C26_NoLostAppend ==
    [][\A p \in Procs :
          /\ Leaves(p, "cs") =>
                /\ transitions' = Append(transitions, et[p])
                /\ \A q \in Procs \ {p} :
                      pc[q] \in {"lock", "cs"} =>
                          pc'[q] = pc[q] /\ et'[q] = et[q]
          /\ Leaves(p, "lock") =>
                /\ pc'[p] = "cs"
                /\ transitions' = transitions
                /\ et' = et]_vars

\* C26: two SaveTransition calls with different records are under way at the
\* same time, one inside and one waiting, and the log holds a record.
C26_Witness ==
    \E p, q \in Procs :
        /\ pc[p] = "cs" /\ pc[q] = "lock"
        /\ et[p] # et[q]
        /\ transitions # <<>>

\* ------------------------------------------- a storage that may fail
\* Mutant: Trigger goes on with the zero State when GetCurrentState fails.
TriggerReadFailsIgnored(p) ==
    /\ ReadDone(p, "Trigger")
    /\ currentState' = [currentState EXCEPT ![p] = ""]
    /\ pc' = [pc EXCEPT ![p] = "check"]
    /\ UNCHANGED <<fsm, newErr, transitions, clock, call, et>>

\* Trigger: GetCurrentState returns an error of the backend, and Trigger
\* returns it.
TriggerReadFails(p) ==
    /\ ReadDone(p, "Trigger")
    /\ Done(p)
    /\ UNCHANGED <<fsm, newErr, transitions, clock>>

\* SaveTransition returns an error of the backend without saving, and Start
\* or Trigger returns it.
SaveFails(p) ==
    /\ pc[p] = "lock"
    /\ Done(p)
    /\ UNCHANGED <<fsm, newErr, transitions, mu, clock>>

NextFailing ==
    \/ Next
    \/ \E p \in Procs : TriggerReadFails(p)
    \/ \E p \in Procs : SaveFails(p)

SpecFailing == Init /\ [][NextFailing]_vars

\* How far a call has got: before its read or validation, between the
\* storage calls, at SaveTransition, inside it.
Rank(at) ==
    CASE at = "idle" -> 0
      [] at \in {"start", "rcs", "next"} -> 1
      [] at = "check" -> 2
      [] at = "lock" -> 3
      [] at = "cs" -> 4

\* C27: with a storage whose calls may fail, every step of a Start or a
\* Trigger returns to the caller or takes the call further, never back to a
\* storage call it has made; Start makes no read; a Trigger goes on after
\* its read only with the state the read returned; from the call of
\* SaveTransition the call either saves or returns; and a call that returns
\* from anywhere but the end of SaveTransition leaves the log as it was.
C27_NoRetry ==
    [][\A p \in Procs :
          (call[p].op \in {"Start", "Trigger"} /\ Acts(p)) =>
              /\ pc'[p] = "idle" \/ Rank(pc'[p]) > Rank(pc[p])
              /\ call[p].op = "Start" => pc[p] \in {"start", "lock", "cs"}
              /\ (pc[p] = "rcs" /\ pc'[p] # "idle") =>
                    /\ pc'[p] = "check"
                    /\ Exists(call[p].entity)
                    /\ currentState'[p] = CurrentOf(call[p].entity)
              /\ pc[p] = "lock" => pc'[p] \in {"cs", "idle"}
              /\ pc[p] # "cs" => transitions' = transitions]_vars

\* C27: the clock has been read for a record and every call has returned,
\* but the log is empty: a SaveTransition failed and nothing was saved
\* after it.
C27_Witness ==
    /\ fsm # NoFSM
    /\ clock > 0
    /\ transitions = <<>>
    /\ \A p \in Procs : pc[p] = "idle"

\* C28: an entity for which GetState returns a state keeps having one: no
\* step takes the log to one for which GetState returns entity-not-found.
C28_EntityPersists ==
    [][\A e \in Entities :
          GetCurrentState(transitions, e).err = NoErr =>
              GetCurrentState(transitions', e).err = NoErr]_vars

\* C28: an entity whose only record is the first of the log is still there
\* after two records of the other entity.
C28_Witness ==
    \E e \in Entities :
        /\ Records(e) = {1}
        /\ Len(transitions) = 3
        /\ GetCurrentState(transitions, e).err = NoErr

\* C29: every record of the log that Trigger appended carries a declared
\* transition, the first one declared for its from-state and event, also
\* when the entity had left that from-state before the record was appended.
C29_TriggerRecordsDeclared ==
    \A i \in DOMAIN transitions :
        ~IsGenesis(transitions[i]) =>
            FirstMatch(transitions[i].Transition.From, transitions[i].Transition.Event)
               = [state |-> transitions[i].Transition.To, err |-> NoErr]

\* C29: a Trigger record was appended with a from-state that was no longer
\* the entity's state: the entity's record before it leads elsewhere.
C29_Witness ==
    \E e \in Entities :
        LET h == GetTransitions(transitions, e)
        IN \E i \in DOMAIN h :
              /\ i > 1
              /\ ~IsGenesis(h[i])
              /\ h[i].Transition.From # h[i - 1].Transition.To

\* C30: the to-state of every record of the log is a declared state, and so
\* is the current state of every entity that has a record.
C30_StatesDeclared ==
    /\ \A i \in DOMAIN transitions :
          transitions[i].Transition.To \in DeclaredStates
    /\ \A e \in Entities :
          Exists(e) =>
              /\ GetCurrentState(transitions, e).err = NoErr
              /\ GetCurrentState(transitions, e).state \in DeclaredStates

\* C30: the log holds records of Start and of Trigger, and an entity is in
\* each of the declared states.
C30_Witness ==
    /\ \E i, j \in DOMAIN transitions :
          IsGenesis(transitions[i]) /\ ~IsGenesis(transitions[j])
    /\ \A s \in DeclaredStates : \E e \in Entities : Exists(e) /\ CurrentOf(e) = s

\* C31: for every record of the log that Trigger appended there is an
\* earlier record of the same entity whose to-state is the record's
\* from-state: the from-state was read from the log, whatever was appended
\* between the read and the append.
C31_FromWasCurrent ==
    \A i \in DOMAIN transitions :
        ~IsGenesis(transitions[i]) =>
            \E j \in 1..(i - 1) :
                /\ transitions[j].Entity = transitions[i].Entity
                /\ transitions[j].Transition.To = transitions[i].Transition.From

\* C31: a Trigger record leaves a state that the entity had left already:
\* its from-state is the to-state of the record before the entity's previous
\* one, and not that of the previous one.
C31_Witness ==
    \E e \in Entities :
        LET h == GetTransitions(transitions, e)
        IN /\ Len(h) = 3
           /\ ~IsGenesis(h[3])
           /\ h[3].Transition.From # h[2].Transition.To
           /\ h[3].Transition.From = h[1].Transition.To

\* The number of records of history h that have the shape of a genesis
\* record.
Starts(h) == Cardinality({i \in DOMAIN h : IsGenesis(h[i])})

\* C32: with one caller making its calls one after the other, the history of
\* an entity on which Start has succeeded once is a path of the workflow: its
\* first record is the genesis record, and every later record is a declared
\* transition that leaves the to-state of the record just before it.
C32_SequentialPath ==
    LET h == GetTransitions(transitions, DocEntity)
    IN Starts(h) = 1 =>
          /\ IsGenesis(h[1])
          /\ \A i \in 2..Len(h) :
                /\ h[i].Transition.From = h[i - 1].Transition.To
                /\ \E k \in DOMAIN fsm.transitions :
                      fsm.transitions[k] = T(h[i].Transition.From,
                                             h[i].Transition.Event,
                                             h[i].Transition.To)

\* C32: the entity was started once and went from draft through submitted
\* and approved to published.
C32_Witness ==
    LET h == GetTransitions(transitions, DocEntity)
    IN /\ Starts(h) = 1
       /\ Len(h) = 4
       /\ h[4].Transition.To = "published"

\* C33: what CanTrigger returns is exactly whether a Trigger of the same
\* entity and event, run on the same log with no call in between, returns
\* nil, for declared and undeclared events alike; and the return of
\* CanTrigger cannot change the log. (A Trigger under way whose entity is
\* still in the state it read fails or goes on to save just as that
\* Trigger.)
C33_CanTriggerAgrees ==
    \A p \in Procs :
        /\ (pc[p] = "rcs" /\ call[p].op = "CanTrigger") =>
              /\ CanTriggerResult(p)
                    <=> (TriggerFor(call[p].entity, call[p].event) = NoErr)
              /\ ~ENABLED (CanTriggerReturn(p) /\ transitions' # transitions)
        /\ (pc[p] = "rcs" /\ call[p].op = "Trigger" /\ ReadResult(p).err # NoErr) =>
              TriggerFor(call[p].entity, call[p].event) = ReadResult(p).err
        /\ (/\ pc[p] = "check"
            /\ GetCurrentState(transitions, call[p].entity)
                  = [state |-> currentState[p], err |-> NoErr]) =>
              TriggerFor(call[p].entity, call[p].event) = CheckResult(p).err

\* C33: CanTrigger and a Trigger are reading the same log for the same
\* entity and event, and CanTrigger answers yes.
C33_Witness ==
    \E p, q \in Procs :
        /\ pc[p] = "rcs" /\ call[p].op = "CanTrigger"
        /\ pc[q] = "rcs" /\ call[q].op = "Trigger"
        /\ call[q].entity = call[p].entity
        /\ call[q].event = call[p].event
        /\ CanTriggerResult(p)

\* C34: for an entity with records, an event is in what GetAvailableEvents
\* returns exactly when CanTrigger returns true for it on the same log; the
\* result is empty exactly when no declared transition leaves the current
\* state, and then a Trigger of any event on that log fails.
C34_AvailableIffCanTrigger ==
    \A p \in Procs :
        (pc[p] = "rcs" /\ call[p].op = "GetAvailableEvents"
            /\ Exists(call[p].entity)) =>
            LET r == GetAvailableEventsResult(p)
                e == call[p].entity
                all == DeclaredEvents \cup EventInputs
            IN /\ r.err = NoErr
               /\ \A ev \in all :
                     (\E i \in DOMAIN r.events : r.events[i] = ev)
                        <=> CanTriggerFor(e, ev)
               /\ r.events = <<>> <=> Leaving(CurrentOf(e)) = {}
               /\ r.events = <<>> => \A ev \in all : TriggerFor(e, ev) # NoErr

\* C34: GetAvailableEvents is asked about a document that is published, a
\* state no declared transition leaves.
C34_Witness ==
    /\ pc[Caller] = "rcs" /\ call[Caller].op = "GetAvailableEvents"
    /\ Exists(DocEntity)
    /\ CurrentOf(DocEntity) = "published"
    /\ GetAvailableEventsResult(Caller).events = <<>>

\* The positions of the log whose record has the Type and the ID of e.
PositionsOf(e) ==
    {i \in DOMAIN transitions :
        /\ transitions[i].Entity.Type = e.Type
        /\ transitions[i].Entity.ID = e.ID}

\* C35: GetTransitions returns the records of the log whose entity has the
\* Type and the ID asked for, each once and in the order of their positions
\* in the log, whatever their timestamps; GetCurrentState returns the
\* to-state of the last of them, entity-not-found when there is none.
C35_AppendOrder ==
    \A e \in Entities :
        LET h == GetTransitions(transitions, e)
            at == PositionsOf(e)
        IN /\ Len(h) = Cardinality(at)
           /\ \A i \in at : h[Cardinality({j \in at : j <= i})] = transitions[i]
           /\ GetCurrentState(transitions, e)
                 = IF at = {}
                   THEN [state |-> "", err |-> ErrEntityNotFound]
                   ELSE [state |-> h[Len(h)].Transition.To, err |-> NoErr]

\* C35: GetTransitions is about to return records of an entity that are not
\* in the order of their timestamps, from a log that holds a record of the
\* other entity too.
C35_Witness ==
    \E p \in Procs :
        /\ pc[p] = "rcs" /\ call[p].op = "GetTransitions"
        /\ LET h == GetTransitionsResult(p).records
           IN /\ Len(h) = 2
              /\ h[1].Transition.CreatedAt > h[2].Transition.CreatedAt
        /\ Len(transitions) = 3

\* The operation of the call goroutine p is in or is starting.
OpOf(p) == IF call[p].op # "none" THEN call[p].op ELSE call'[p].op

QueryOps ==
    {"GetState", "GetTransitions", "CanTrigger", "GetAvailableEvents",
     "GetNextState"}

\* C36: no step of GetState, GetTransitions, CanTrigger, GetAvailableEvents
\* or GetNextState, returning a result or an error, changes the log or the
\* workflow definition; a step that changes the log is the end of the
\* SaveTransition of a Start or a Trigger.
C36_QueriesReadOnly ==
    [][/\ \A p \in Procs :
             (Acts(p) /\ OpOf(p) \in QueryOps) =>
                 transitions' = transitions /\ fsm' = fsm
       /\ transitions' # transitions =>
             \E p \in Procs :
                 call[p].op \in {"Start", "Trigger"} /\ Leaves(p, "cs")]_vars

\* C36: a GetState that is about to fail, for an entity without a record,
\* reads a log that holds records of the other entity.
C36_Witness ==
    \E p \in Procs :
        /\ pc[p] = "rcs" /\ call[p].op = "GetState"
        /\ GetStateResult(p).err = ErrEntityNotFound
        /\ Len(transitions) >= 2

\* C37: for an entity without a record GetTransitions returns the empty
\* sequence and no error, GetState and GetAvailableEvents return
\* entity-not-found, and CanTrigger returns false.
C37_NoRecordAnswers ==
    \A p \in Procs :
        (pc[p] = "rcs" /\ PositionsOf(call[p].entity) = {}) =>
            /\ call[p].op = "GetTransitions" =>
                  GetTransitionsResult(p) = [records |-> <<>>, err |-> NoErr]
            /\ call[p].op = "GetState" =>
                  GetStateResult(p).err = ErrEntityNotFound
            /\ call[p].op = "GetAvailableEvents" =>
                  GetAvailableEventsResult(p).err = ErrEntityNotFound
            /\ call[p].op = "CanTrigger" => CanTriggerResult(p) = FALSE

\* C37: GetTransitions is asked for an entity without a record while the log
\* holds records of the other entity.
C37_Witness ==
    \E p \in Procs :
        /\ pc[p] = "rcs" /\ call[p].op = "GetTransitions"
        /\ PositionsOf(call[p].entity) = {}
        /\ transitions # <<>>

====
